---- MODULE Spec2Model ----
(***************************************************************************)
(* Model of grnpy's validation primitives (src/internal/validation.rs)    *)
(* and of the error values they return (src/error.rs).                    *)
(*                                                                         *)
(* A Rust &str is modelled as a sequence of Unicode scalar values (its    *)
(* chars()); its len() is the number of bytes of its UTF-8 encoding.      *)
(* Fixed text (error messages, field names) is modelled by TLA+ strings.  *)
(***************************************************************************)
EXTENDS Integers, Sequences, FiniteSets, TLC

\* Longest candidate string, in characters.
MaxLen == 4
\* Largest numeric parameter (min, max, expected_len, value).
MaxBound == 3
\* Longest candidate string of the two-candidate specification.
MaxPairLen == 2

\* '!' = 33, '1' = 49, 'A' = 65, 'a' = 97, U+00E9 (e acute) = 233.
Chars == {33, 49, 65, 97, 233}

Strings == UNION {[1..n -> Chars] : n \in 0..MaxLen}

PairStrings == UNION {[1..n -> Chars] : n \in 0..MaxPairLen}

Bounds == 0..MaxBound

\* "", "!", "e-acute !", "1a", "Aa1"
Charsets == {<<>>, <<33>>, <<233, 33>>, <<49, 97>>, <<65, 97, 49>>}

\* Option<&str>: None, or Some(charset).
None == [some |-> FALSE]

Some(s) == [some |-> TRUE, val |-> s]

Specials == {None} \cup {Some(s) : s \in {<<>>, <<33>>, <<233, 33>>}}

Fields == {"cost", "length"}

(***************************************************************************)
(* Error values: src/error.rs                                              *)
(***************************************************************************)
Ok == [tag |-> "Ok"]

Validation(msg) == [tag |-> "Validation", msg |-> msg]

InvalidLength(min, max, actual) ==
    [tag |-> "InvalidLength", min |-> min, max |-> max, actual |-> actual]

InvalidCharset(charset) == [tag |-> "InvalidCharset", charset |-> charset]

PinFormat(len) == [tag |-> "PinFormat", len |-> len]

Pending == [tag |-> "Pending"]

(***************************************************************************)
(* Standard-library operations the primitives use                          *)
(***************************************************************************)
\* char::len_utf8: bytes of the UTF-8 encoding of a scalar value.
len_utf8(c) ==
    IF c < 128 THEN 1 ELSE IF c < 2048 THEN 2 ELSE IF c < 65536 THEN 3 ELSE 4

\* str::len: the length of the string in bytes.
RECURSIVE str_len(_)
str_len(s) == IF s = <<>> THEN 0 ELSE len_utf8(Head(s)) + str_len(Tail(s))

is_ascii_uppercase(c) == c >= 65 /\ c <= 90

is_ascii_lowercase(c) == c >= 97 /\ c <= 122

is_ascii_digit(c) == c >= 48 /\ c <= 57

\* str::contains(char)
str_contains(s, c) == \E j \in 1..Len(s) : s[j] = c

\* usize's Display: decimal digits, no padding.
RECURSIVE to_string(_)
to_string(n) ==
    LET digit == <<"0", "1", "2", "3", "4", "5", "6", "7", "8", "9">>
    IN  IF n < 10 THEN digit[n + 1]
        ELSE to_string(n \div 10) \o digit[(n % 10) + 1]

(***************************************************************************)
(* The primitives: src/internal/validation.rs                              *)
(***************************************************************************)
check_length(value, min, max) ==
    LET len == str_len(value)
    IN  IF len < min \/ len > max
        THEN InvalidLength(min, max, len)
        ELSE Ok

\* Variant: a length mismatch reports the length found, not the one expected.
contains_only_digits_reports_actual(value, expected_len) ==
    IF str_len(value) # expected_len
    THEN PinFormat(str_len(value))
    ELSE IF ~(\A i \in 1..Len(value) : is_ascii_digit(value[i]))
    THEN PinFormat(expected_len)
    ELSE Ok

contains_only_digits(value, expected_len) ==
    IF str_len(value) # expected_len
    THEN PinFormat(expected_len)
    ELSE IF ~(\A i \in 1..Len(value) : is_ascii_digit(value[i]))
    THEN PinFormat(expected_len)
    ELSE Ok

\* s occurs in t as a contiguous substring.
IsSubstring(s, t) ==
    \E k \in 0..(Len(t) - Len(s)) : \A i \in 1..Len(s) : t[k + i] = s[i]

\* Variant: the value as a whole is looked up in the charset
\* (charset.contains(value)), not each of its characters.
contains_only_charset_substring(value, charset) ==
    IF ~IsSubstring(value, charset)
    THEN InvalidCharset(charset)
    ELSE Ok

contains_only_charset(value, charset) ==
    IF ~(\A i \in 1..Len(value) : str_contains(charset, value[i]))
    THEN InvalidCharset(charset)
    ELSE Ok

\* Variant: the lowercase requirement is checked before the uppercase one.
contains_categories_lower_first(value, require_upper, require_lower, require_digit, require_special) ==
    IF require_lower /\ ~(\E i \in 1..Len(value) : is_ascii_lowercase(value[i]))
    THEN Validation("missing lowercase character")
    ELSE IF require_upper
            /\ ~(\E i \in 1..Len(value) : is_ascii_uppercase(value[i]))
    THEN Validation("missing uppercase character")
    ELSE IF require_digit
            /\ ~(\E i \in 1..Len(value) : is_ascii_digit(value[i]))
    THEN Validation("missing digit")
    ELSE IF require_special.some
            /\ ~(\E i \in 1..Len(value) :
                    str_contains(require_special.val, value[i]))
    THEN Validation("missing special character")
    ELSE Ok

\* Variant: an empty special charset is treated like an absent one.
contains_categories_empty_is_none(value, require_upper, require_lower, require_digit, require_special) ==
    IF require_upper /\ ~(\E i \in 1..Len(value) : is_ascii_uppercase(value[i]))
    THEN Validation("missing uppercase character")
    ELSE IF require_lower
            /\ ~(\E i \in 1..Len(value) : is_ascii_lowercase(value[i]))
    THEN Validation("missing lowercase character")
    ELSE IF require_digit
            /\ ~(\E i \in 1..Len(value) : is_ascii_digit(value[i]))
    THEN Validation("missing digit")
    ELSE IF require_special.some /\ require_special.val # <<>>
            /\ ~(\E i \in 1..Len(value) :
                    str_contains(require_special.val, value[i]))
    THEN Validation("missing special character")
    ELSE Ok

contains_categories(value, require_upper, require_lower, require_digit, require_special) ==
    IF require_upper /\ ~(\E i \in 1..Len(value) : is_ascii_uppercase(value[i]))
    THEN Validation("missing uppercase character")
    ELSE IF require_lower
            /\ ~(\E i \in 1..Len(value) : is_ascii_lowercase(value[i]))
    THEN Validation("missing lowercase character")
    ELSE IF require_digit
            /\ ~(\E i \in 1..Len(value) : is_ascii_digit(value[i]))
    THEN Validation("missing digit")
    ELSE IF require_special.some
            /\ ~(\E i \in 1..Len(value) :
                    str_contains(require_special.val, value[i]))
    THEN Validation("missing special character")
    ELSE Ok

\* Variant: the upper bound is exclusive.
check_range_exclusive_max(value, min, max, field) ==
    IF value < min \/ value >= max
    THEN Validation(field \o " must be between " \o to_string(min) \o " and "
                    \o to_string(max) \o ", got " \o to_string(value))
    ELSE Ok

check_range(value, min, max, field) ==
    IF value < min \/ value > max
    THEN Validation(field \o " must be between " \o to_string(min) \o " and "
                    \o to_string(max) \o ", got " \o to_string(value))
    ELSE Ok

(***************************************************************************)
(* State: one call of a primitive and the value it returned.               *)
(* The library keeps no state of its own between calls.                    *)
(***************************************************************************)
VARIABLES call, result, result2

vars == <<call, result, result2>>

CheckLengthCalls ==
    [op : {"check_length"}, value : Strings, min : Bounds, max : Bounds]

ContainsOnlyDigitsCalls ==
    [op : {"contains_only_digits"}, value : Strings, expected_len : Bounds]

ContainsOnlyCharsetCalls ==
    [op : {"contains_only_charset"}, value : Strings, charset : Charsets]

ContainsCategoriesCalls ==
    [op : {"contains_categories"}, value : Strings, require_upper : BOOLEAN,
     require_lower : BOOLEAN, require_digit : BOOLEAN,
     require_special : Specials]

CheckRangeCalls ==
    [op : {"check_range"}, value : Bounds \cup {10, 12}, min : Bounds,
     max : Bounds, field : Fields]

Init ==
    /\ call \in CheckLengthCalls \cup ContainsOnlyDigitsCalls
                \cup ContainsOnlyCharsetCalls \cup ContainsCategoriesCalls
                \cup CheckRangeCalls
    /\ result = Pending
    /\ result2 = Pending

CheckLength ==
    /\ call.op = "check_length"
    /\ result = Pending
    /\ result' = check_length(call.value, call.min, call.max)
    /\ UNCHANGED <<call, result2>>

ContainsOnlyDigits ==
    /\ call.op = "contains_only_digits"
    /\ result = Pending
    /\ result' = contains_only_digits(call.value, call.expected_len)
    /\ UNCHANGED <<call, result2>>

ContainsOnlyCharset ==
    /\ call.op = "contains_only_charset"
    /\ result = Pending
    /\ result' = contains_only_charset(call.value, call.charset)
    /\ UNCHANGED <<call, result2>>

ContainsCategories ==
    /\ call.op = "contains_categories"
    /\ result = Pending
    /\ result' = contains_categories(call.value, call.require_upper,
                                     call.require_lower, call.require_digit,
                                     call.require_special)
    /\ UNCHANGED <<call, result2>>

CheckRange ==
    /\ call.op = "check_range"
    /\ result = Pending
    /\ result' = check_range(call.value, call.min, call.max, call.field)
    /\ UNCHANGED <<call, result2>>

Next ==
    \/ CheckLength
    \/ ContainsOnlyDigits
    \/ ContainsOnlyCharset
    \/ ContainsCategories
    \/ CheckRange

Spec == Init /\ [][Next]_vars

(***************************************************************************)
(* Password policy (core/security/authentication/password.rs, declared in  *)
(* authentication/mod.rs): check_length, then contains_categories; the     *)
(* first failure is the outcome.                                           *)
(***************************************************************************)
validate_password(candidate, config) ==
    LET length == check_length(candidate, config.min_length, config.max_length)
    IN  IF length # Ok
        THEN length
        ELSE contains_categories(candidate, config.require_upper,
                                 config.require_lower, config.require_digit,
                                 config.special_charset)

PasswordConfigs ==
    [min_length : Bounds, max_length : Bounds, require_upper : BOOLEAN,
     require_lower : BOOLEAN, require_digit : BOOLEAN,
     special_charset : {None, Some(<<33>>)}]

PasswordCalls ==
    [op : {"validate_password"}, value : Strings, config : PasswordConfigs]

InitPolicy ==
    /\ call \in PasswordCalls
    /\ result = Pending
    /\ result2 = Pending

ValidatePassword ==
    /\ call.op = "validate_password"
    /\ result = Pending
    /\ result' = validate_password(call.value, call.config)
    /\ UNCHANGED <<call, result2>>

NextPolicy == ValidatePassword

SpecPolicy == InitPolicy /\ [][NextPolicy]_vars

(***************************************************************************)
(* Two candidates under the same parameters: the same primitive is called  *)
(* on value and on value2, and both returned values are kept.              *)
(***************************************************************************)
PairCheckLengthCalls ==
    [op : {"check_length"}, value : PairStrings, value2 : PairStrings,
     min : Bounds, max : Bounds]

PairContainsOnlyDigitsCalls ==
    [op : {"contains_only_digits"}, value : PairStrings,
     value2 : PairStrings, expected_len : Bounds]

PairContainsOnlyCharsetCalls ==
    [op : {"contains_only_charset"}, value : PairStrings,
     value2 : PairStrings, charset : Charsets]

PairContainsCategoriesCalls ==
    [op : {"contains_categories"}, value : PairStrings,
     value2 : PairStrings, require_upper : BOOLEAN, require_lower : BOOLEAN,
     require_digit : BOOLEAN, require_special : Specials]

InitPair ==
    /\ call \in PairCheckLengthCalls \cup PairContainsOnlyDigitsCalls
                \cup PairContainsOnlyCharsetCalls
                \cup PairContainsCategoriesCalls
    /\ result = Pending
    /\ result2 = Pending

PairCheckLength ==
    /\ call.op = "check_length"
    /\ result = Pending
    /\ result' = check_length(call.value, call.min, call.max)
    /\ result2' = check_length(call.value2, call.min, call.max)
    /\ UNCHANGED call

PairContainsOnlyDigits ==
    /\ call.op = "contains_only_digits"
    /\ result = Pending
    /\ result' = contains_only_digits(call.value, call.expected_len)
    /\ result2' = contains_only_digits(call.value2, call.expected_len)
    /\ UNCHANGED call

PairContainsOnlyCharset ==
    /\ call.op = "contains_only_charset"
    /\ result = Pending
    /\ result' = contains_only_charset(call.value, call.charset)
    /\ result2' = contains_only_charset(call.value2, call.charset)
    /\ UNCHANGED call

PairContainsCategories ==
    /\ call.op = "contains_categories"
    /\ result = Pending
    /\ result' = contains_categories(call.value, call.require_upper,
                                     call.require_lower, call.require_digit,
                                     call.require_special)
    /\ result2' = contains_categories(call.value2, call.require_upper,
                                      call.require_lower, call.require_digit,
                                      call.require_special)
    /\ UNCHANGED call

NextPair ==
    \/ PairCheckLength
    \/ PairContainsOnlyDigits
    \/ PairContainsOnlyCharset
    \/ PairContainsCategories

SpecPair == InitPair /\ [][NextPair]_vars

(***************************************************************************)
(* Vocabulary of the properties                                            *)
(***************************************************************************)
\* The call has returned.
Returned == result # Pending

\* Number of characters of a string.
char_count(s) == Len(s)

CharsOf(s) == {s[i] : i \in 1..Len(s)}

HasMultiByte(s) == \E c \in CharsOf(s) : c >= 128

AllDigits(s) == CharsOf(s) \subseteq 48..57

\* The unmet requirements of a contains_categories call, in check order:
\* uppercase, lowercase, digit, special.
Unmet(v, upper, lower, digit, special) ==
    << upper /\ CharsOf(v) \cap 65..90 = {},
       lower /\ CharsOf(v) \cap 97..122 = {},
       digit /\ CharsOf(v) \cap 48..57 = {},
       special.some /\ CharsOf(v) \cap CharsOf(special.val) = {} >>

CategoryError ==
    << Validation("missing uppercase character"),
       Validation("missing lowercase character"),
       Validation("missing digit"),
       Validation("missing special character") >>

\* What the first-unmet-requirement rule prescribes.
FirstUnmet(unmet) ==
    IF \E k \in 1..4 : unmet[k]
    THEN CategoryError[CHOOSE k \in 1..4 :
                          unmet[k] /\ \A j \in 1..(k - 1) : ~unmet[j]]
    ELSE Ok

CallUnmet ==
    Unmet(call.value, call.require_upper, call.require_lower,
          call.require_digit, call.require_special)

PolicyUnmet ==
    Unmet(call.value, call.config.require_upper, call.config.require_lower,
          call.config.require_digit, call.config.special_charset)

(***************************************************************************)
(* check_length                                                            *)
(***************************************************************************)
\* C1: check_length(s, min, max) returns InvalidLength{min, max, len(s)}
\* exactly when len(s) < min or len(s) > max, and Ok otherwise, len(s)
\* being the length of s in characters.
C1_CheckLengthContract ==
    (call.op = "check_length" /\ Returned) =>
        result = IF char_count(call.value) < call.min
                    \/ char_count(call.value) > call.max
                 THEN InvalidLength(call.min, call.max, char_count(call.value))
                 ELSE Ok

\* C2: for a value containing multi-byte characters, check_length accepts
\* or rejects by the number of characters, and reports that number as actual.
C2_LengthInCharacters ==
    (call.op = "check_length" /\ Returned /\ HasMultiByte(call.value)) =>
        /\ (result = Ok) <=> (/\ call.min <= char_count(call.value)
                              /\ char_count(call.value) <= call.max)
        /\ result.tag = "InvalidLength" =>
               result.actual = char_count(call.value)

\* What check_length does measure: the same contract over the byte length.
CheckLengthByteContract ==
    (call.op = "check_length" /\ Returned) =>
        result = IF str_len(call.value) < call.min
                    \/ str_len(call.value) > call.max
                 THEN InvalidLength(call.min, call.max, str_len(call.value))
                 ELSE Ok

(***************************************************************************)
(* contains_only_digits                                                    *)
(***************************************************************************)
\* C3: contains_only_digits(s, n) returns Ok exactly when s is exactly n
\* characters, all ASCII digits; otherwise PinFormat{len: n}, whatever the
\* cause, carrying the expected length n.
C3_ContainsOnlyDigitsContract ==
    (call.op = "contains_only_digits" /\ Returned) =>
        result = IF char_count(call.value) = call.expected_len
                    /\ AllDigits(call.value)
                 THEN Ok
                 ELSE PinFormat(call.expected_len)

\* A value of expected_len bytes but fewer characters is rejected, and the
\* error carries expected_len.
C3_Witness ==
    /\ call.op = "contains_only_digits"
    /\ str_len(call.value) = call.expected_len
    /\ char_count(call.value) # call.expected_len
    /\ result = PinFormat(call.expected_len)

(***************************************************************************)
(* contains_categories                                                     *)
(***************************************************************************)
\* C4: contains_categories returns the error of the first unmet requirement
\* in the order uppercase, lowercase, digit, special, and Ok exactly when no
\* enabled requirement is unmet.
C4_FirstUnmetCategory ==
    (call.op = "contains_categories" /\ Returned) =>
        result = FirstUnmet(CallUnmet)

\* Lowercase, digit and special are all unmet, uppercase is met: lowercase
\* alone is reported.
C4_Witness ==
    /\ call.op = "contains_categories"
    /\ ~CallUnmet[1] /\ CallUnmet[2] /\ CallUnmet[3] /\ CallUnmet[4]
    /\ call.require_upper
    /\ result = Validation("missing lowercase character")

\* C10: when the upper, lower and digit requirements are met, an absent
\* special charset gives Ok and a present but empty one gives the
\* missing-special-character error.
C10_EmptySpecialUnsatisfiable ==
    (/\ call.op = "contains_categories" /\ Returned
     /\ ~CallUnmet[1] /\ ~CallUnmet[2] /\ ~CallUnmet[3]) =>
        /\ call.require_special = None => result = Ok
        /\ call.require_special = Some(<<>>) =>
               result = Validation("missing special character")

\* A value meeting all three required classes, and holding a special
\* character too, is rejected under an empty special charset.
C10_Witness ==
    /\ call.op = "contains_categories"
    /\ call.require_upper /\ call.require_lower /\ call.require_digit
    /\ {33, 49, 65, 97} \subseteq CharsOf(call.value)
    /\ call.require_special = Some(<<>>)
    /\ result = Validation("missing special character")

(***************************************************************************)
(* contains_only_charset                                                   *)
(***************************************************************************)
\* C5: contains_only_charset(value, charset) returns Ok exactly when every
\* character of value occurs in charset, and otherwise InvalidCharset
\* carrying the charset passed in.
C5_ContainsOnlyCharsetContract ==
    (call.op = "contains_only_charset" /\ Returned) =>
        result = IF CharsOf(call.value) \subseteq CharsOf(call.charset)
                 THEN Ok
                 ELSE InvalidCharset(call.charset)

\* A value that is no substring of the charset, but whose characters all
\* occur in it, is accepted.
C5_Witness ==
    /\ call.op = "contains_only_charset"
    /\ call.value # <<>>
    /\ ~IsSubstring(call.value, call.charset)
    /\ result = Ok

(***************************************************************************)
(* check_range                                                             *)
(***************************************************************************)
\* C6: check_range(value, min, max, field) fails exactly when value < min
\* or value > max, with a Validation error whose message carries field, min,
\* max and value; it returns Ok otherwise, both bounds included.
C6_CheckRangeContract ==
    (call.op = "check_range" /\ Returned) =>
        IF call.min <= call.value /\ call.value <= call.max
        THEN result = Ok
        ELSE result = Validation(call.field \o " must be between "
                                 \o to_string(call.min) \o " and "
                                 \o to_string(call.max) \o ", got "
                                 \o to_string(call.value))

\* A two-digit value above max is rejected with the full message.
C6_Witness ==
    /\ call.op = "check_range"
    /\ call.value = 12 /\ call.min = 1 /\ call.max = 3 /\ call.field = "cost"
    /\ result = Validation("cost must be between 1 and 3, got 12")

\* A value equal to max is accepted.
C6_MaxInclusive ==
    (call.op = "check_range" /\ Returned
     /\ call.value = call.max /\ call.min <= call.max) => result = Ok

(***************************************************************************)
(* Candidate confidentiality (specification SpecPair)                      *)
(***************************************************************************)
\* Both calls rejected, for the same cause.
SameRejection ==
    /\ result.tag = result2.tag
    /\ result.tag \notin {"Ok", "Pending"}
    /\ result.tag = "Validation" => result.msg = result2.msg

\* C7: two candidates of the same length (in characters), rejected for the
\* same cause under the same parameters, get identical error values.
C7_ErrorIndependentOfCharacters ==
    (char_count(call.value) = char_count(call.value2) /\ SameRejection) =>
        result = result2

\* What does hold: candidates of the same byte length get identical errors.
ErrorDependsOnByteLengthOnly ==
    (str_len(call.value) = str_len(call.value2) /\ SameRejection) =>
        result = result2

(***************************************************************************)
(* Password policy (specification SpecPolicy)                              *)
(***************************************************************************)
\* C9: a candidate outside the length bounds is rejected with
\* InvalidLength{min, max, actual}, whatever categories it misses; one within
\* the bounds is rejected for its first missing category in the order upper,
\* lower, digit, special; one that meets everything is accepted.
C9_PasswordPolicyOrder ==
    (call.op = "validate_password" /\ Returned) =>
        result = IF char_count(call.value) < call.config.min_length
                    \/ char_count(call.value) > call.config.max_length
                 THEN InvalidLength(call.config.min_length,
                                    call.config.max_length,
                                    char_count(call.value))
                 ELSE FirstUnmet(PolicyUnmet)

\* What does hold: the same order, with the length counted in bytes.
PasswordPolicyByteOrder ==
    (call.op = "validate_password" /\ Returned) =>
        result = IF str_len(call.value) < call.config.min_length
                    \/ str_len(call.value) > call.config.max_length
                 THEN InvalidLength(call.config.min_length,
                                    call.config.max_length,
                                    str_len(call.value))
                 ELSE FirstUnmet(PolicyUnmet)

====
